---- MODULE Spec2Model ----
(***************************************************************************)
(* cheatrs: a hotkey-summoned cheat-sheet overlay.                         *)
(*                                                                         *)
(* The model covers the Tauri backend (src-tauri/src/lib.rs: the config    *)
(* file, the captured foreground process, the sheet loader and the         *)
(* preference commands) and the Leptos frontend (src/app.rs: the signals,  *)
(* the mount task, the process-captured handler, the save effect and the   *)
(* sheet navigation).                                                      *)
(*                                                                         *)
(* Option<T> is modelled as a sequence of length at most one.  An awaited  *)
(* backend call and the continuation that consumes its answer are one      *)
(* step; the fire-and-forget commands (update_last_cheatsheet,             *)
(* toggle_search_all_for_process) travel through the FIFO `pending`.       *)
(***************************************************************************)
EXTENDS Integers, Sequences, FiniteSets, TLC

VARIABLES
    disk,                    \* the cheat-sheet directories and their files
    cfgFile,                 \* the content of config.json
    captured,                \* CAPTURED_PROCESS
    visible,                 \* whether the main window is shown
    sheets,                  \* signal: the sheet store
    current_sheet_id,        \* signal
    current_process,         \* signal
    search_all_for_process,  \* signal
    pcMount,                 \* position of the mount task
    loaded_sheets,           \* local of the mount task
    initial_id,              \* local of the mount task
    tasks,                   \* process-captured handler tasks in flight
    pending,                 \* fire-and-forget backend commands in flight
    last_done,               \* the queued command the backend completed last, and its result
    events,                  \* number of user and window events so far
    \* the search functions, called on their own
    fs_query,                \* fuzzy_score: query
    fs_text,                 \* fuzzy_score: text
    fs_score,                \* fuzzy_score: the returned score (None before the call)
    bi_sheets,               \* build_index: sheets
    bi_process_filter,       \* build_index: process_filter
    bi_search_all,           \* build_index: search_all
    index,                   \* the index built (None before the call)
    search_query,            \* signal: the text of the search box
    current_sheet,           \* the id of the sheet whose results are shown
    matches                  \* the ranked list handed to rendering (None before it is computed)

\* the variables of the application
appVars == <<disk, cfgFile, captured, visible, sheets, current_sheet_id,
             current_process, search_all_for_process, pcMount, loaded_sheets,
             initial_id, tasks, pending, last_done, events>>

\* the variables of a fuzzy_score call
scoreVars == <<fs_query, fs_text, fs_score>>

\* the variables of an index build and a ranking
searchVars == <<bi_sheets, bi_process_filter, bi_search_all, index,
               search_query, current_sheet, matches>>

vars == <<appVars, scoreVars, searchVars>>

----------------------------------------------------------------------------
(* Bounds *)

\* user and window events (shows, selections, cycles, filter clicks) in a run
MaxEvents == 3

----------------------------------------------------------------------------
(* Option<T> and small helpers *)

None == <<>>
Some(x) == <<x>>
IsSome(o) == o # <<>>
Unwrap(o) == o[1]

EmptyMap == [k \in {} |-> ""]

\* HashMap::insert
MapInsert(m, k, v) == [x \in (DOMAIN m) \cup {k} |-> IF x = k THEN v ELSE m[x]]

\* HashMap::get: exact (case-sensitive) key
MapGet(m, k) == IF k \in DOMAIN m THEN Some(m[k]) ELSE None

RECURSIVE Flatten(_)
Flatten(ss) == IF ss = <<>> THEN <<>> ELSE Head(ss) \o Flatten(Tail(ss))

\* Iterator::position / find: index of the first element satisfying Test, 0 if none
FirstIndex(s, Test(_)) ==
    IF \E i \in 1..Len(s) : Test(s[i])
    THEN CHOOSE i \in 1..Len(s) : Test(s[i]) /\ \A j \in 1..(i-1) : ~Test(s[j])
    ELSE 0

\* str::to_lowercase on the names that occur
to_lowercase(s) ==
    CASE s = "Code.exe" -> "code.exe"
      [] s = "CODE.EXE" -> "code.exe"
      [] s = "Slack.exe" -> "slack.exe"
      [] OTHER -> s

\* the process names the OS reports for a foreground window
ProcNames == {"code.exe", "Code.exe", "slack.exe"}

\* get_active_process_name(): None, or the executable's file name
Foregrounds == {None} \cup {Some(p) : p \in ProcNames}

----------------------------------------------------------------------------
(* Cheat-sheet files and the loader *)

FileA   == [kind |-> "json", id |-> "A", processes |-> <<"CODE.EXE">>, sections_ok |-> TRUE]
FileB   == [kind |-> "json", id |-> "B", processes |-> <<>>, sections_ok |-> TRUE]
FileC   == [kind |-> "json", id |-> "C", processes |-> <<"slack.exe", "code.exe">>, sections_ok |-> TRUE]
\* same id as FileA, as a user copy of a bundled sheet has
FileA2  == [kind |-> "json", id |-> "A", processes |-> <<"Slack.exe">>, sections_ok |-> TRUE]
\* not JSON / no id or name: serde_json::from_str::<CheatSheet> fails
FileBad == [kind |-> "garbage", id |-> "", processes |-> <<>>, sections_ok |-> FALSE]
\* valid top-level fields, an item without "desc": the backend's Value accepts it
FileMal == [kind |-> "json", id |-> "M", processes |-> <<>>, sections_ok |-> FALSE]

\* directories in search order (project, bundled, user), files in read_dir order
Layouts == {
    << <<FileA, FileB, FileC>> >>,
    << <<FileA, FileBad, FileB>> >>,
    << <<FileA, FileMal, FileB>> >>,
    << <<FileA, FileB>>, <<FileA2>> >> }

\* load_cheatsheet_from_file: Ok(sheet) iff the top-level fields deserialize
load_cheatsheet_from_file(f) ==
    IF f.kind = "json"
    THEN Some([id |-> f.id, processes |-> f.processes, sections_ok |-> f.sections_ok])
    ELSE None

\* load_cheatsheets: every directory, every file, Ok pushed, Err only logged
load_cheatsheets(d) ==
    LET files == Flatten(d)
        res == [i \in 1..Len(files) |-> load_cheatsheet_from_file(files[i])]
    IN Flatten(res)

\* load_sheets (frontend): one from_value of the whole Vec<CheatSheet>;
\* any element that does not deserialize fails the vector
load_sheets(d) ==
    LET result == load_cheatsheets(d)
    IN IF \A i \in 1..Len(result) : result[i].sections_ok
       THEN [i \in 1..Len(result) |->
                [id |-> result[i].id, processes |-> result[i].processes]]
       ELSE <<>>

----------------------------------------------------------------------------
(* The config file *)

\* AppConfig::default(): the derived Default, bool::default() for the flag
AppConfigDefault ==
    [last_cheatsheet_id |-> None,
     last_cheatsheet_per_process |-> EmptyMap,
     search_all_for_process |-> FALSE]

\* default_search_all_for_process(): serde's default for a missing field
default_search_all_for_process == TRUE

Readable(file) == file.kind = "json"

\* load_config
load_config(file) ==
    IF Readable(file)
    THEN [last_cheatsheet_id |-> file.last,
          last_cheatsheet_per_process |-> file.per,
          search_all_for_process |->
              IF file.sa = "missing" THEN default_search_all_for_process
              ELSE file.sa = "true"]
    ELSE AppConfigDefault

\* what save_config writes
Serialize(config) ==
    [kind |-> "json",
     last |-> config.last_cheatsheet_id,
     per |-> config.last_cheatsheet_per_process,
     sa |-> IF config.search_all_for_process THEN "true" ELSE "false"]

\* no config.json, or one that cannot be read, or one that is not an AppConfig:
\* load_config falls through to the same line for all three
FileUnreadable == [kind |-> "unreadable", last |-> None, per |-> EmptyMap, sa |-> "missing"]
\* left by an earlier session with another sheet set, written before the flag existed
FileOld     == [kind |-> "json", last |-> Some("Z"),
                per |-> MapInsert(EmptyMap, "slack.exe", "B"), sa |-> "missing"]

InitConfigs == {FileUnreadable, FileOld}

----------------------------------------------------------------------------
(* Backend commands (src-tauri/src/lib.rs) *)

\* sheet_processes.iter().any(|p| p.to_lowercase() == process.to_lowercase())
Listed(processes, process) ==
    \E i \in 1..Len(processes) : to_lowercase(processes[i]) = to_lowercase(process)

\* mutant: the names are compared as written
ShouldSavePerProcess_CaseSensitive(sheet_processes, process) ==
    sheet_processes # <<>>
    /\ \E i \in 1..Len(sheet_processes) : sheet_processes[i] = process

\* mutant: an empty list counts as naming every process
ShouldSavePerProcess_EmptyMatchesAll(sheet_processes, process) ==
    sheet_processes = <<>> \/ Listed(sheet_processes, process)

\* the guard of the per-process insert in update_last_cheatsheet
ShouldSavePerProcess(sheet_processes, process) ==
    sheet_processes # <<>> /\ Listed(sheet_processes, process)

\* mutant: last_cheatsheet_id is set only together with the per-process entry
update_last_cheatsheet_LastOnlyIfListed(file, sheet_id, process_name, sheet_processes) ==
    IF IsSome(process_name)
       /\ ShouldSavePerProcess(sheet_processes, Unwrap(process_name))
    THEN [load_config(file) EXCEPT
             !.last_cheatsheet_id = Some(sheet_id),
             !.last_cheatsheet_per_process =
                 MapInsert(@, Unwrap(process_name), sheet_id)]
    ELSE load_config(file)

\* mutant: selecting the sheet that is already the last one clears it
update_last_cheatsheet_ReselectClears(file, sheet_id, process_name, sheet_processes) ==
    LET old == load_config(file)
        config == [old EXCEPT !.last_cheatsheet_id =
                                  IF @ = Some(sheet_id) THEN None ELSE Some(sheet_id)]
    IN IF IsSome(process_name)
          /\ ShouldSavePerProcess(sheet_processes, Unwrap(process_name))
       THEN [config EXCEPT !.last_cheatsheet_per_process =
                               MapInsert(@, Unwrap(process_name), sheet_id)]
       ELSE config

\* update_last_cheatsheet: the config handed to save_config
update_last_cheatsheet(file, sheet_id, process_name, sheet_processes) ==
    LET config == [load_config(file) EXCEPT !.last_cheatsheet_id = Some(sheet_id)]
    IN IF IsSome(process_name)
          /\ ShouldSavePerProcess(sheet_processes, Unwrap(process_name))
       THEN [config EXCEPT !.last_cheatsheet_per_process =
                               MapInsert(@, Unwrap(process_name), sheet_id)]
       ELSE config

\* toggle_search_all_for_process: the config handed to save_config
toggle_search_all_for_process(file) ==
    [load_config(file) EXCEPT !.search_all_for_process = ~@]

\* get_initial_sheet_id; active is get_active_process_name() at the call
get_initial_sheet_id(file, active) ==
    LET config == load_config(file)
    IN IF IsSome(active)
          /\ IsSome(MapGet(config.last_cheatsheet_per_process, Unwrap(active)))
       THEN MapGet(config.last_cheatsheet_per_process, Unwrap(active))
       ELSE config.last_cheatsheet_id

\* get_sheet_for_process
get_sheet_for_process(file, process_name) ==
    MapGet(load_config(file).last_cheatsheet_per_process, process_name)

\* get_config
get_config(file) == load_config(file)

----------------------------------------------------------------------------
(* Frontend helpers (src/app.rs) *)

\* sheet.processes.is_empty() || sheet.processes.iter().any(...)
SheetMatches(sheet, process) ==
    sheet.processes = <<>> \/ Listed(sheet.processes, process)

\* all_sheets.iter().find(|s| s.id == id): index of the first such sheet, 0 if none
FindSheet(all_sheets, id) ==
    LET HasId(s) == s.id = id IN FirstIndex(all_sheets, HasId)

\* the save effect's sheet_processes: the found sheet's list, or the default
SheetProcessesOf(all_sheets, id) ==
    IF FindSheet(all_sheets, id) = 0 THEN <<>>
    ELSE all_sheets[FindSheet(all_sheets, id)].processes

\* the filtered_sheets memo (the dropdown and the Alt+Arrow cycle)
filtered_sheets(all_sheets, process, search_all) ==
    IF search_all /\ IsSome(process)
    THEN LET Keep(s) == SheetMatches(s, Unwrap(process)) IN SelectSeq(all_sheets, Keep)
    ELSE all_sheets

\* the save effect: runs when current_sheet_id or current_process was set, and
\* sends update_last_cheatsheet unless no sheet is current
SaveEffect(sheet_id, process, all_sheets, via) ==
    IF sheet_id # ""
    THEN << [cmd |-> "update_last_cheatsheet", sheet_id |-> sheet_id,
             process |-> process,
             sheet_processes |-> SheetProcessesOf(all_sheets, sheet_id),
             via |-> via] >>
    ELSE <<>>

\* mutant: a preferred sheet with an empty list validates the preference
ValidSaved_EmptyValidates(saved, all_sheets, p) ==
    IF IsSome(saved)
       /\ FindSheet(all_sheets, Unwrap(saved)) # 0
       /\ SheetMatches(all_sheets[FindSheet(all_sheets, Unwrap(saved))], p)
    THEN saved
    ELSE None

\* the saved preference, kept only if its sheet lists the process
ValidSaved(saved, all_sheets, p) ==
    IF IsSome(saved)
       /\ FindSheet(all_sheets, Unwrap(saved)) # 0
       /\ Listed(all_sheets[FindSheet(all_sheets, Unwrap(saved))].processes, p)
    THEN saved
    ELSE None

\* mutant: the scan takes the first sheet that matches, empty lists included
FirstMatchingSheet_EmptyMatchesAll(all_sheets, p) ==
    LET Fits(s) == SheetMatches(s, p)
    IN IF FirstIndex(all_sheets, Fits) = 0 THEN None
       ELSE Some(all_sheets[FirstIndex(all_sheets, Fits)].id)

\* the first sheet, in store order, with a non-empty list naming the process
FirstMatchingSheet(all_sheets, p) ==
    LET Fits(s) == s.processes # <<>> /\ Listed(s.processes, p)
    IN IF FirstIndex(all_sheets, Fits) = 0 THEN None
       ELSE Some(all_sheets[FirstIndex(all_sheets, Fits)].id)

\* mutant: when nothing matches, the display is cleared
TargetSheet_ClearOnNoMatch(saved, all_sheets, p) ==
    IF IsSome(ValidSaved(saved, all_sheets, p))
    THEN ValidSaved(saved, all_sheets, p)
    ELSE IF IsSome(FirstMatchingSheet(all_sheets, p))
         THEN FirstMatchingSheet(all_sheets, p)
         ELSE Some("")

\* target_sheet_id of the process-captured handler
TargetSheet(saved, all_sheets, p) ==
    IF IsSome(ValidSaved(saved, all_sheets, p))
    THEN ValidSaved(saved, all_sheets, p)
    ELSE FirstMatchingSheet(all_sheets, p)

\* mutant: a persisted id is made current whether or not a sheet has it
InitialSheet_KeepsMissingId(id, loaded) ==
    IF IsSome(id) THEN Unwrap(id)
    ELSE IF loaded # <<>> THEN loaded[1].id
    ELSE ""

\* the sheet the mount task makes current ("" when it sets none)
InitialSheet(id, loaded) ==
    IF IsSome(id) /\ FindSheet(loaded, Unwrap(id)) # 0 THEN Unwrap(id)
    ELSE IF loaded # <<>> THEN loaded[1].id
    ELSE ""

RemoveAt(s, i) == SubSeq(s, 1, i - 1) \o SubSeq(s, i + 1, Len(s))


----------------------------------------------------------------------------
(* Initial state: the app has started, the window is hidden, nothing ran yet *)

Init ==
    /\ disk \in Layouts
    /\ cfgFile \in InitConfigs
    /\ captured = None
    /\ visible = FALSE
    /\ sheets = <<>>
    /\ current_sheet_id = ""
    /\ current_process = None
    /\ search_all_for_process = TRUE
    /\ pcMount = "get_current_process"
    /\ loaded_sheets = <<>>
    /\ initial_id = None
    /\ tasks = <<>>
    /\ pending = <<>>
    /\ last_done = [cmd |-> "", sheet_id |-> "", process |-> None,
                    sheet_processes |-> <<>>, via |-> "", ok |-> FALSE]
    /\ events = 0
    /\ fs_query = <<>>
    /\ fs_text = <<>>
    /\ fs_score = None
    /\ bi_sheets = <<>>
    /\ bi_process_filter = None
    /\ bi_search_all = TRUE
    /\ index = None
    /\ search_query = <<>>
    /\ current_sheet = ""
    /\ matches = None

----------------------------------------------------------------------------
(* The mount task (app.rs 188-232): four awaited backend calls in a row *)

\* invoke("get_current_process"): a captured process becomes current_process
MountGetCurrentProcess ==
    /\ pcMount = "get_current_process"
    /\ pcMount' = "get_config"
    /\ current_process' = IF IsSome(captured) THEN captured ELSE current_process
    \* the save effect runs, and sends nothing while no sheet is current
    /\ pending' = IF IsSome(captured)
                  THEN pending \o SaveEffect(current_sheet_id, captured, sheets, "mount")
                  ELSE pending
    /\ UNCHANGED <<scoreVars, searchVars, disk, cfgFile, captured, visible, sheets, current_sheet_id,
                   search_all_for_process, loaded_sheets, initial_id, tasks,
                   last_done, events>>

\* invoke("get_config"): the flag of the answer becomes the toggle state
MountGetConfig ==
    /\ pcMount = "get_config"
    /\ pcMount' = "load_sheets"
    /\ search_all_for_process' = get_config(cfgFile).search_all_for_process
    /\ UNCHANGED <<scoreVars, searchVars, disk, cfgFile, captured, visible, sheets, current_sheet_id,
                   current_process, loaded_sheets, initial_id, tasks, pending,
                   last_done, events>>

\* load_sheets().await
MountLoadSheets ==
    /\ pcMount = "load_sheets"
    /\ pcMount' = "get_initial_sheet_id"
    /\ loaded_sheets' = load_sheets(disk)
    /\ UNCHANGED <<scoreVars, searchVars, disk, cfgFile, captured, visible, sheets, current_sheet_id,
                   current_process, search_all_for_process, initial_id, tasks,
                   pending, last_done, events>>

\* invoke("get_initial_sheet_id"), then the current sheet and the store are set
MountGetInitialSheetId ==
    /\ pcMount = "get_initial_sheet_id"
    /\ \E active \in Foregrounds :
          initial_id' = get_initial_sheet_id(cfgFile, active)
    /\ pcMount' = "done"
    /\ current_sheet_id' = InitialSheet(initial_id', loaded_sheets)
    /\ sheets' = loaded_sheets
    /\ pending' = pending \o SaveEffect(current_sheet_id', current_process,
                                        loaded_sheets, "mount")
    /\ UNCHANGED <<scoreVars, searchVars, disk, cfgFile, captured, visible, current_process,
                   search_all_for_process, loaded_sheets, tasks, last_done, events>>

----------------------------------------------------------------------------
(* The window (lib.rs 492-513, 627-637) *)

\* toggle_main_window_visibility on a hidden window: capture, show, emit
\* "process-captured"; the listener spawns a handler task
ToggleShow ==
    /\ ~visible
    /\ events < MaxEvents
    /\ \E active \in Foregrounds : captured' = active
    /\ visible' = TRUE
    /\ tasks' = Append(tasks, [pc |-> "get_current_process", p |-> "",
                               current_id |-> "", all_sheets |-> <<>>])
    /\ events' = events + 1
    /\ UNCHANGED <<scoreVars, searchVars, disk, cfgFile, sheets, current_sheet_id, current_process,
                   search_all_for_process, pcMount, loaded_sheets, initial_id,
                   pending, last_done>>

\* toggle_main_window_visibility on a visible window
ToggleHide ==
    /\ visible
    /\ visible' = FALSE
    /\ UNCHANGED <<scoreVars, searchVars, disk, cfgFile, captured, sheets, current_sheet_id,
                   current_process, search_all_for_process, pcMount,
                   loaded_sheets, initial_id, tasks, pending, last_done, events>>

\* the tauri://blur listener
Blur ==
    /\ visible
    /\ visible' = FALSE
    /\ UNCHANGED <<scoreVars, searchVars, disk, cfgFile, captured, sheets, current_sheet_id,
                   current_process, search_all_for_process, pcMount,
                   loaded_sheets, initial_id, tasks, pending, last_done, events>>

----------------------------------------------------------------------------
(* The process-captured handler (app.rs 245-308): two awaited calls *)

\* invoke("get_current_process"), set current_process, test the displayed sheet
HandlerGetCurrentProcess(i) ==
    /\ tasks[i].pc = "get_current_process"
    /\ IF ~IsSome(captured)
       THEN /\ tasks' = RemoveAt(tasks, i)
            /\ UNCHANGED <<current_process, pending>>
       ELSE LET p == Unwrap(captured)
                k == FindSheet(sheets, current_sheet_id)
                current_sheet_matches == k # 0 /\ SheetMatches(sheets[k], p)
            IN /\ current_process' = Some(p)
               \* set_current_process.set re-runs the save effect
               /\ pending' = pending \o SaveEffect(current_sheet_id, Some(p), sheets,
                                                   IF current_sheet_matches
                                                   THEN "kept" ELSE "process")
               /\ IF current_sheet_matches
                  THEN /\ tasks' = RemoveAt(tasks, i)
                  ELSE /\ tasks' = [tasks EXCEPT ![i] =
                                       [pc |-> "get_sheet_for_process", p |-> p,
                                        current_id |-> current_sheet_id,
                                        all_sheets |-> sheets]]
    /\ UNCHANGED <<scoreVars, searchVars, disk, cfgFile, captured, visible, sheets, current_sheet_id,
                   search_all_for_process, pcMount, loaded_sheets, initial_id,
                   last_done, events>>

\* invoke("get_sheet_for_process"), validate it, scan, switch
HandlerGetSheetForProcess(i) ==
    /\ tasks[i].pc = "get_sheet_for_process"
    /\ LET p == tasks[i].p
           saved == get_sheet_for_process(cfgFile, p)
           target_sheet_id == TargetSheet(saved, tasks[i].all_sheets, p)
       IN /\ current_sheet_id' = IF IsSome(target_sheet_id)
                                 THEN Unwrap(target_sheet_id)
                                 ELSE current_sheet_id
          /\ pending' = IF IsSome(target_sheet_id)
                        THEN pending \o SaveEffect(Unwrap(target_sheet_id),
                                                   current_process, sheets, "process")
                        ELSE pending
    /\ tasks' = RemoveAt(tasks, i)
    /\ UNCHANGED <<scoreVars, searchVars, disk, cfgFile, captured, visible, sheets, current_process,
                   search_all_for_process, pcMount, loaded_sheets, initial_id,
                   last_done, events>>

----------------------------------------------------------------------------
(* Navigation and the filter toggle (app.rs 400-418, 475-477, 520-526) *)

\* the dropdown's change event: one of the listed sheets, other than the shown one
SelectSheet(id) ==
    /\ visible
    /\ events < MaxEvents
    /\ id # current_sheet_id
    /\ \E i \in 1..Len(filtered_sheets(sheets, current_process, search_all_for_process)) :
          filtered_sheets(sheets, current_process, search_all_for_process)[i].id = id
    /\ current_sheet_id' = id
    /\ pending' = pending \o SaveEffect(id, current_process, sheets, "select")
    /\ events' = events + 1
    /\ UNCHANGED <<scoreVars, searchVars, disk, cfgFile, captured, visible, sheets, current_process,
                   search_all_for_process, pcMount, loaded_sheets, initial_id,
                   tasks, last_done>>

\* the next id of the Alt+Arrow cycle: dir is 1 (ArrowDown) or ids.len() - 1 (ArrowUp)
CycleNext(ids, current, down) ==
    LET Is(x) == x = current
        idx == FirstIndex(ids, Is) - 1
        dir == IF down THEN 1 ELSE Len(ids) - 1
    IN ids[((idx + dir) % Len(ids)) + 1]

\* Alt+ArrowUp / Alt+ArrowDown
CycleSheet(down) ==
    /\ visible
    /\ events < MaxEvents
    /\ LET list == filtered_sheets(sheets, current_process, search_all_for_process)
           ids == [i \in 1..Len(list) |-> list[i].id]
       IN /\ \E i \in 1..Len(ids) : ids[i] = current_sheet_id
          /\ current_sheet_id' = CycleNext(ids, current_sheet_id, down)
          /\ pending' = pending \o SaveEffect(current_sheet_id', current_process,
                                              sheets, "cycle")
    /\ events' = events + 1
    /\ UNCHANGED <<scoreVars, searchVars, disk, cfgFile, captured, visible, sheets, current_process,
                   search_all_for_process, pcMount, loaded_sheets, initial_id,
                   tasks, last_done>>

\* the process-filter checkbox: set the signal, send the toggle command
ToggleFilterClick ==
    /\ visible
    /\ events < MaxEvents
    /\ search_all_for_process' = ~search_all_for_process
    /\ pending' = Append(pending, [cmd |-> "toggle_search_all_for_process",
                                   sheet_id |-> "", process |-> None,
                                   sheet_processes |-> <<>>, via |-> "toggle"])
    /\ events' = events + 1
    /\ UNCHANGED <<scoreVars, searchVars, disk, cfgFile, captured, visible, sheets, current_sheet_id,
                   current_process, pcMount, loaded_sheets, initial_id, tasks,
                   last_done>>

----------------------------------------------------------------------------
(* The backend runs the queued commands in order; save_config may fail *)

BackendUpdateLastCheatsheet ==
    /\ pending # <<>>
    /\ Head(pending).cmd = "update_last_cheatsheet"
    /\ LET m == Head(pending)
           config == update_last_cheatsheet(cfgFile, m.sheet_id, m.process,
                                            m.sheet_processes)
       IN \E ok \in BOOLEAN :
             /\ cfgFile' = IF ok THEN Serialize(config) ELSE cfgFile
             /\ last_done' = [cmd |-> m.cmd, sheet_id |-> m.sheet_id,
                                 process |-> m.process,
                                 sheet_processes |-> m.sheet_processes,
                                 via |-> m.via, ok |-> ok]
    /\ pending' = Tail(pending)
    /\ UNCHANGED <<scoreVars, searchVars, disk, captured, visible, sheets, current_sheet_id,
                   current_process, search_all_for_process, pcMount,
                   loaded_sheets, initial_id, tasks, events>>

BackendToggleSearchAll ==
    /\ pending # <<>>
    /\ Head(pending).cmd = "toggle_search_all_for_process"
    /\ LET m == Head(pending)
           config == toggle_search_all_for_process(cfgFile)
       IN \E ok \in BOOLEAN :
             /\ cfgFile' = IF ok THEN Serialize(config) ELSE cfgFile
             /\ last_done' = [cmd |-> m.cmd, sheet_id |-> m.sheet_id,
                                 process |-> m.process,
                                 sheet_processes |-> m.sheet_processes,
                                 via |-> m.via, ok |-> ok]
    /\ pending' = Tail(pending)
    /\ UNCHANGED <<scoreVars, searchVars, disk, captured, visible, sheets, current_sheet_id,
                   current_process, search_all_for_process, pcMount,
                   loaded_sheets, initial_id, tasks, events>>

----------------------------------------------------------------------------

Next ==
    \/ MountGetCurrentProcess
    \/ MountGetConfig
    \/ MountLoadSheets
    \/ MountGetInitialSheetId
    \/ ToggleShow
    \/ ToggleHide
    \/ Blur
    \/ \E i \in 1..Len(tasks) : HandlerGetCurrentProcess(i)
    \/ \E i \in 1..Len(tasks) : HandlerGetSheetForProcess(i)
    \/ \E id \in {"A", "B", "C"} : SelectSheet(id)
    \/ \E down \in BOOLEAN : CycleSheet(down)
    \/ ToggleFilterClick
    \/ BackendUpdateLastCheatsheet
    \/ BackendToggleSearchAll

Spec == Init /\ [][Next]_vars

----------------------------------------------------------------------------
(* fuzzy_score (app.rs 54-93)                                              *)
(*                                                                         *)
(* A string to search in is a sequence of characters.  A score is the f64  *)
(* score / (1.0 + len / 120.0), where score is a sum of 1.0 and 0.5: it is *)
(* kept as the exact fraction <<60 * halves, 120 + len>> (halves counts    *)
(* 0.5s), and 0.0 as <<0, 1>>.  Two different fractions of this form with  *)
(* the lengths that occur differ by far more than an f64 rounding error.   *)

\* longest query and longest haystack of a fuzzy_score call
MaxQueryLen == 3
MaxTextLen == 4

\* the characters that occur: letters of both cases, the space, a symbol
Alphabet == {"a", "b", "A", " ", "#"}

\* char::is_whitespace
is_whitespace(c) == c = " "

\* char::is_alphanumeric
is_alphanumeric(c) == c \in {"a", "b", "x", "A", "B", "X"}

\* char::to_lowercase
char_to_lowercase(c) ==
    CASE c = "A" -> "a"
      [] c = "B" -> "b"
      [] c = "X" -> "x"
      [] OTHER -> c

\* str::to_lowercase on a sequence of characters
chars_to_lowercase(str) == [i \in 1..Len(str) |-> char_to_lowercase(str[i])]

\* text_chars[ti..].iter().position(|&c| c == qc), as the index in text_chars
\* (counted from 1; 0 when there is none)
PositionFrom(text_chars, ti, qc) ==
    IF \E j \in (ti+1)..Len(text_chars) : text_chars[j] = qc
    THEN CHOOSE j \in (ti+1)..Len(text_chars) :
             /\ text_chars[j] = qc
             /\ \A k \in (ti+1)..(j-1) : text_chars[k] # qc
    ELSE 0

\* mutant: the 1.0 bonus goes to a match after a gap instead of a contiguous one
RECURSIVE FuzzyLoop_GapBonus(_, _, _, _, _, _)
FuzzyLoop_GapBonus(query_chars, text_chars, qi, ti, halves, at) ==
    IF qi >= Len(query_chars)
    THEN [matched |-> TRUE, halves |-> halves, at |-> at]
    ELSE LET qc == query_chars[qi + 1]
         IN IF qc = " "
            THEN FuzzyLoop_GapBonus(query_chars, text_chars, qi + 1, ti, halves + 1, at)
            ELSE LET j == PositionFrom(text_chars, ti, qc)
                     actual_idx == j - 1
                     contiguous == IF actual_idx = ti THEN 0 ELSE 2
                     boundary ==
                         IF actual_idx = 0
                            \/ is_whitespace(text_chars[actual_idx])
                            \/ ~is_alphanumeric(text_chars[actual_idx])
                         THEN 1 ELSE 0
                 IN IF j = 0
                    THEN [matched |-> FALSE, halves |-> halves, at |-> at]
                    ELSE FuzzyLoop_GapBonus(query_chars, text_chars, qi + 1,
                                            actual_idx + 1,
                                            halves + 2 + contiguous + boundary,
                                            Append(at, j))

\* the while loop: qi and ti count from 0 as in the source, halves is 2 * score
\* (at a failed match, what was accrued), at collects the matched haystack
\* indices (counted from 1)
RECURSIVE FuzzyLoop(_, _, _, _, _, _)
FuzzyLoop(query_chars, text_chars, qi, ti, halves, at) ==
    IF qi >= Len(query_chars)
    THEN [matched |-> TRUE, halves |-> halves, at |-> at]
    ELSE LET qc == query_chars[qi + 1]
         IN IF qc = " "
            THEN FuzzyLoop(query_chars, text_chars, qi + 1, ti, halves + 1, at)
            ELSE LET j == PositionFrom(text_chars, ti, qc)
                     actual_idx == j - 1
                     contiguous == IF actual_idx = ti THEN 2 ELSE 0
                     boundary ==
                         IF actual_idx = 0
                            \/ is_whitespace(text_chars[actual_idx])
                            \/ ~is_alphanumeric(text_chars[actual_idx])
                         THEN 1 ELSE 0
                 IN IF j = 0
                    THEN [matched |-> FALSE, halves |-> halves, at |-> at]
                    ELSE FuzzyLoop(query_chars, text_chars, qi + 1, actual_idx + 1,
                                   halves + 2 + contiguous + boundary,
                                   Append(at, j))

\* the run of the loop on the lowercased arguments
FuzzyRun(q, t) == FuzzyLoop(chars_to_lowercase(q), chars_to_lowercase(t), 0, 0, 0, <<>>)

\* mutant: a failed match returns what was accrued so far
fuzzy_score_KeepsPartial(q, t) ==
    LET r == FuzzyRun(q, t)
    IN IF r.halves = 0
       THEN <<0, 1>>
       ELSE <<60 * r.halves, 120 + Len(t)>>

\* mutant: the empty query scores 1.0
fuzzy_score_EmptyQueryScores(q, t) ==
    LET r == FuzzyRun(q, t)
    IN IF q = <<>> THEN <<1, 1>>
       ELSE IF ~r.matched \/ r.halves = 0
       THEN <<0, 1>>
       ELSE <<60 * r.halves, 120 + Len(t)>>

\* fuzzy_score: 0.0 on a failed match, else score / (1.0 + len / 120.0)
fuzzy_score(q, t) ==
    LET r == FuzzyRun(q, t)
    IN IF ~r.matched \/ r.halves = 0
       THEN <<0, 1>>
       ELSE <<60 * r.halves, 120 + Len(t)>>

\* comparisons of two scores
ScoreLess(x, y) == x[1] * y[2] < y[1] * x[2]
ScorePositive(x) == x[1] > 0
ScoreZero(x) == x[1] = 0

\* all sequences over a set of length at most n
RECURSIVE SeqsUpTo(_, _)
SeqsUpTo(S, n) ==
    IF n = 0 THEN {<<>>}
    ELSE SeqsUpTo(S, n - 1)
         \cup {Append(w, c) : w \in {v \in SeqsUpTo(S, n - 1) : Len(v) = n - 1}, c \in S}

\* the application at rest, while a search function is called on its own
AppAtRest ==
    /\ disk = <<>>
    /\ cfgFile = FileUnreadable
    /\ captured = None
    /\ visible = FALSE
    /\ sheets = <<>>
    /\ current_sheet_id = ""
    /\ current_process = None
    /\ search_all_for_process = TRUE
    /\ pcMount = "done"
    /\ loaded_sheets = <<>>
    /\ initial_id = None
    /\ tasks = <<>>
    /\ pending = <<>>
    /\ last_done = [cmd |-> "", sheet_id |-> "", process |-> None,
                    sheet_processes |-> <<>>, via |-> "", ok |-> FALSE]
    /\ events = 0

SearchAtRest ==
    /\ bi_sheets = <<>>
    /\ bi_process_filter = None
    /\ bi_search_all = TRUE
    /\ index = None
    /\ search_query = <<>>
    /\ current_sheet = ""
    /\ matches = None

\* a call of fuzzy_score with any query and haystack within the bounds
InitScore ==
    /\ AppAtRest
    /\ SearchAtRest
    /\ fs_query \in SeqsUpTo(Alphabet, MaxQueryLen)
    /\ fs_text \in SeqsUpTo(Alphabet, MaxTextLen)
    /\ fs_score = None

\* the call returns
FuzzyScore ==
    /\ fs_score = None
    /\ fs_score' = Some(fuzzy_score(fs_query, fs_text))
    /\ UNCHANGED <<appVars, searchVars, fs_query, fs_text>>

NextScore == FuzzyScore

SpecScore == InitScore /\ [][NextScore]_vars

----------------------------------------------------------------------------
(* build_index (app.rs 123-176) and the ranking of the results (613-647)   *)
(*                                                                         *)
(* Here a sheet carries its name, description and sections; the texts are  *)
(* sequences of characters, the process names stay whole strings.          *)

\* the cap of the ranked list: matches.truncate(100)
MaxResults == 100

\* items of the one section of the long sheet
BigItems == 103

\* Vec<String>::join(" ")
RECURSIVE JoinChars(_)
JoinChars(parts) ==
    IF parts = <<>> THEN <<>>
    ELSE IF Len(parts) = 1 THEN parts[1]
    ELSE parts[1] \o <<" ">> \o JoinChars(Tail(parts))

\* items: keys, desc, tags, hint
ItemTagged == [keys |-> << <<"b">> >>, desc |-> <<"b">>,
               tags |-> << <<"x", "A">> >>, hint |-> None]
ItemHash   == [keys |-> << <<"#", "a">> >>, desc |-> <<>>,
               tags |-> <<>>, hint |-> None]
ItemPlain  == [keys |-> << <<"a">>, <<"B">> >>, desc |-> <<"a", "b">>,
               tags |-> <<>>, hint |-> Some(<<"x">>)]
ItemTwoTags == [keys |-> << <<"x">> >>, desc |-> <<"x">>,
                tags |-> << <<"a">>, <<"b">> >>, hint |-> None]

ItemPool == <<ItemTagged, ItemHash, ItemPlain, ItemTwoTags>>

\* sheets: one for every process, one per listed process, one long
SheetS == [id |-> "S", name |-> <<"s">>, description |-> <<>>, processes |-> <<>>,
           sections |-> << [title |-> <<"t">>, items |-> <<ItemTagged, ItemHash>>],
                           [title |-> <<"u">>, items |-> <<ItemPlain>>] >>]
SheetP == [id |-> "P", name |-> <<"p">>, description |-> <<"a">>,
           processes |-> <<"CODE.EXE">>,
           sections |-> << [title |-> <<"t">>, items |-> <<ItemTwoTags, ItemPlain>>] >>]
SheetQ == [id |-> "Q", name |-> <<"q">>, description |-> <<>>,
           processes |-> <<"slack.exe", "code.exe">>,
           sections |-> << [title |-> <<"t">>, items |-> <<ItemHash>>] >>]
SheetBig == [id |-> "G", name |-> <<"g">>, description |-> <<>>, processes |-> <<>>,
             sections |-> << [title |-> <<"t">>,
                              items |-> [i \in 1..BigItems |->
                                            ItemPool[(i % Len(ItemPool)) + 1]]] >>]

\* a user copy of sheet S: the same id, one section of three items
SheetS2 == [id |-> "S", name |-> <<"s">>, description |-> <<>>, processes |-> <<>>,
            sections |-> << [title |-> <<"t">>,
                             items |-> <<ItemTagged, ItemHash, ItemPlain>>] >>]

\* the sheet collections handed to build_index
Stores == { <<>>, <<SheetS, SheetP, SheetQ>>, <<SheetBig>>, <<SheetS, SheetS2>> }

\* the process_filter arguments
ProcessFilters == {None, Some("code.exe"), Some("Code.exe"), Some("slack.exe"),
                   Some("vim")}

\* the texts typed into the search box
Queries == { <<"a">>, <<"a", "b">>, <<"x", " ", "g">>, <<" ">>, <<"#">>,
             <<"#", "a">>, <<"#", "b">>, <<"#", "#", "a">>, <<"#", "g">> }

\* mutant: a given process filters the sheets whatever search_all is
IndexedSheets_FilterAlways(all_sheets, filter, all) ==
    IF IsSome(filter)
    THEN LET Keep(s) == s.processes = <<>> \/ Listed(s.processes, Unwrap(filter))
         IN SelectSeq(all_sheets, Keep)
    ELSE all_sheets

\* the filter of build_index
IndexedSheets(all_sheets, filter, all) ==
    IF IsSome(filter)
    THEN IF all
         THEN LET Keep(s) == s.processes = <<>> \/ Listed(s.processes, Unwrap(filter))
              IN SelectSeq(all_sheets, Keep)
         ELSE all_sheets
    ELSE all_sheets

\* the index entry of one item
IndexEntry(s, section_index, item_index) ==
    LET item == s.sections[section_index + 1].items[item_index + 1]
        parts == item.keys \o <<item.desc>> \o item.tags
                 \o (IF IsSome(item.hint) THEN <<Unwrap(item.hint)>> ELSE <<>>)
                 \o <<s.name, s.description>>
    IN [sheet_id |-> s.id,
        section_index |-> section_index,
        item_index |-> item_index,
        text |-> chars_to_lowercase(JoinChars(parts)),
        tags_text |-> chars_to_lowercase(JoinChars(item.tags))]

\* the entries of one sheet: sections in order, items in order
SheetEntries(s) ==
    Flatten([k \in 1..Len(s.sections) |->
                [i \in 1..Len(s.sections[k].items) |-> IndexEntry(s, k - 1, i - 1)]])

\* build_index
build_index(all_sheets, filter, all) ==
    LET kept == IndexedSheets(all_sheets, filter, all)
    IN Flatten([k \in 1..Len(kept) |-> SheetEntries(kept[k])])

\* the current_sheet memo: the first sheet of the store with the current id
CurrentSheet(all_sheets, sheet_id) == all_sheets[FindSheet(all_sheets, sheet_id)]

\* a sheet of the store with the content of its file: here every sheet file
\* holds one section with the one item ItemPlain
SheetContent(s) ==
    [id |-> s.id, name |-> <<"s">>, description |-> <<>>, processes |-> s.processes,
     sections |-> << [title |-> <<"t">>, items |-> <<ItemPlain>>] >>]

\* the index memo: built from the store, the active process while the
\* process filter is on, and the flag
index_memo(all_sheets, process, search_all) ==
    build_index([k \in 1..Len(all_sheets) |-> SheetContent(all_sheets[k])],
                IF search_all THEN process ELSE None,
                search_all)

\* str::starts_with('#')
is_tag_search(q) == q # <<>> /\ q[1] = "#"

\* str::trim_start_matches('#'): every leading '#' is removed
RECURSIVE trim_start_matches(_)
trim_start_matches(q) ==
    IF q # <<>> /\ q[1] = "#" THEN trim_start_matches(Tail(q)) ELSE q

\* mutant: the fallback scores the stripped query
EntryScore_FallbackStripped(q, entry) ==
    IF is_tag_search(q)
    THEN LET tag_score == fuzzy_score(trim_start_matches(q), entry.tags_text)
         IN IF ScorePositive(tag_score)
            THEN <<2 * tag_score[1], tag_score[2]>>
            ELSE LET generic == fuzzy_score(trim_start_matches(q), entry.text)
                 IN IF ScoreZero(generic) THEN generic
                    ELSE <<generic[1], 2 * generic[2]>>
    ELSE fuzzy_score(q, entry.text)

\* the score the ranking gives an entry
EntryScore(q, entry) ==
    IF is_tag_search(q)
    THEN LET tag_score == fuzzy_score(trim_start_matches(q), entry.tags_text)
         IN IF ScorePositive(tag_score)
            THEN <<2 * tag_score[1], tag_score[2]>>
            ELSE LET generic == fuzzy_score(q, entry.text)
                 IN IF ScoreZero(generic) THEN generic
                    ELSE <<generic[1], 2 * generic[2]>>
    ELSE fuzzy_score(q, entry.text)

\* filter by the displayed sheet, filter_map on score > 0.0
ScoredMatches(q, idx, sheet_id) ==
    LET OfSheet(e) == e.sheet_id = sheet_id
        entries == SelectSeq(idx, OfSheet)
        scored == [i \in 1..Len(entries) |->
                      [section_index |-> entries[i].section_index,
                       item_index |-> entries[i].item_index,
                       score |-> EntryScore(q, entries[i])]]
        Kept(m) == ScorePositive(m.score)
    IN SelectSeq(scored, Kept)

\* sort_by(|a, b| b.2.partial_cmp(&a.2)): the stable sort by descending
\* score, given by the place of each element: after every element of a higher
\* score and after the earlier elements of the same score
sort_by_score(ms) ==
    LET n == Len(ms)
        place == [i \in 1..n |->
                     1 + Cardinality({j \in 1..n : ScoreLess(ms[i].score, ms[j].score)})
                       + Cardinality({j \in 1..(i-1) :
                                         /\ ~ScoreLess(ms[i].score, ms[j].score)
                                         /\ ~ScoreLess(ms[j].score, ms[i].score)})]
    IN [k \in 1..n |-> ms[CHOOSE i \in 1..n : place[i] = k]]

\* mutant: nothing is cut
truncate_KeepsAll(ms, n) == ms

\* Vec::truncate
truncate(ms, n) == IF Len(ms) > n THEN SubSeq(ms, 1, n) ELSE ms

\* the ranked list handed to rendering
RankedMatches(q, idx, sheet_id) ==
    truncate(sort_by_score(ScoredMatches(q, idx, sheet_id)), MaxResults)

\* str::trim().is_empty(): the sheet is shown instead of search results
TrimIsEmpty(q) == \A i \in 1..Len(q) : is_whitespace(q[i])

\* a call of build_index with any store, process and flag, then a ranking for
\* any query and any sheet of the store
InitSearch ==
    /\ AppAtRest
    /\ fs_query = <<>>
    /\ fs_text = <<>>
    /\ fs_score = None
    /\ bi_sheets \in Stores
    /\ bi_process_filter \in ProcessFilters
    /\ bi_search_all \in BOOLEAN
    /\ index = None
    /\ search_query \in Queries
    /\ current_sheet \in {"S", "P", "Q", "G"}
    /\ \E k \in 1..Len(bi_sheets) : bi_sheets[k].id = current_sheet
    /\ matches = None

\* build_index returns
BuildIndex ==
    /\ index = None
    /\ index' = Some(build_index(bi_sheets, bi_process_filter, bi_search_all))
    /\ UNCHANGED <<appVars, scoreVars, bi_sheets, bi_process_filter, bi_search_all,
                   search_query, current_sheet, matches>>

\* the results view computes the ranked list
Rank ==
    /\ IsSome(index)
    /\ matches = None
    /\ ~TrimIsEmpty(search_query)
    /\ matches' = Some(RankedMatches(search_query, Unwrap(index), current_sheet))
    /\ UNCHANGED <<appVars, scoreVars, bi_sheets, bi_process_filter, bi_search_all,
                   index, search_query, current_sheet>>

NextSearch ==
    \/ BuildIndex
    \/ Rank

SpecSearch == InitSearch /\ [][NextSearch]_vars

----------------------------------------------------------------------------
(* Vocabulary of the properties *)

\* this step is the backend running the queued update_last_cheatsheet
UpdateRuns ==
    /\ pending # <<>>
    /\ Head(pending).cmd = "update_last_cheatsheet"
    /\ pending' = Tail(pending)

\* the command came from the dropdown or from Alt+Arrow
UserSelected(m) == m.via \in {"select", "cycle"}

\* the processes of the sheet the store shows under an id (the first with that id)
StoreProcesses(id) ==
    IF FindSheet(sheets, id) = 0 THEN <<>> ELSE sheets[FindSheet(sheets, id)].processes

\* matches(sheet, process) as the specification defines it
SpecMatches(processes, process) == processes = <<>> \/ Listed(processes, process)

\* process appears case-insensitively in a (then non-empty) list
AppearsIn(processes, process) == processes # <<>> /\ Listed(processes, process)

\* the well-formed cheat-sheet files on disk
WellFormedFiles ==
    {f \in {Flatten(disk)[i] : i \in 1..Len(Flatten(disk))} :
        f.kind = "json" /\ f.sections_ok}

----------------------------------------------------------------------------
(* C1: navigation persistence under the match predicate *)

\* C1 as stated: when the backend saves the update sent for a user selection of
\* sheet S under active process P (no entry P -> S existing before), the entry
\* P -> S is in the per-process map afterwards iff S.processes is empty or
\* contains P case-insensitively.
C1_WrittenIffEmptyOrListed ==
    [][ (/\ UpdateRuns
         /\ last_done'.ok
         /\ UserSelected(Head(pending))
         /\ IsSome(Head(pending).process)
         /\ MapGet(cfgFile.per, Unwrap(Head(pending).process))
               # Some(Head(pending).sheet_id))
        => LET S == Head(pending).sheet_id
               P == Unwrap(Head(pending).process)
           IN (MapGet(cfgFile'.per, P) = Some(S))
                 <=> SpecMatches(StoreProcesses(S), P) ]_vars

\* C1 amended: in the same step the entry P -> S is in the per-process map
\* afterwards iff S.processes is non-empty and contains P case-insensitively;
\* a sheet with an empty process list gets no per-process entry.
C1_WrittenIffListed ==
    [][ (/\ UpdateRuns
         /\ last_done'.ok
         /\ UserSelected(Head(pending))
         /\ IsSome(Head(pending).process)
         /\ MapGet(cfgFile.per, Unwrap(Head(pending).process))
               # Some(Head(pending).sheet_id))
        => LET S == Head(pending).sheet_id
               P == Unwrap(Head(pending).process)
           IN (MapGet(cfgFile'.per, P) = Some(S))
                 <=> AppearsIn(StoreProcesses(S), P) ]_vars

\* sheets A{CODE.EXE} and B{} are in the store, B was selected in the dropdown
\* under code.exe, the update was saved, and code.exe has no entry
C1_Witness ==
    /\ FindSheet(sheets, "A") # 0
    /\ last_done.ok
    /\ last_done.via = "select"
    /\ last_done.sheet_id = "B"
    /\ last_done.process = Some("code.exe")
    /\ StoreProcesses("B") = <<>>
    /\ cfgFile.last = Some("B")
    /\ MapGet(cfgFile.per, "code.exe") = None

----------------------------------------------------------------------------
(* C2: the defaults for an unreadable config *)

\* C2: when get_config is answered from no readable config, the preferences
\* handed over are: no last sheet, an empty per-process map, the flag true (and
\* the toggle state takes that value); and an update_last_cheatsheet saved over
\* no readable config does not persist the flag as false.
C2_UnreadableGivesDefaults ==
    [][ /\ (pcMount = "get_config" /\ pcMount' # pcMount /\ ~Readable(cfgFile))
           => /\ get_config(cfgFile).last_cheatsheet_id = None
              /\ get_config(cfgFile).last_cheatsheet_per_process = EmptyMap
              /\ get_config(cfgFile).search_all_for_process = TRUE
              /\ search_all_for_process' = TRUE
        /\ (UpdateRuns /\ last_done'.ok /\ ~Readable(cfgFile))
           => cfgFile'.sa # "false" ]_vars

----------------------------------------------------------------------------
(* C3: per-unit resilience of sheet loading *)

\* C3: once the sheets are loaded, every well-formed cheat-sheet file on disk
\* has its sheet in the store, whatever other files failed to parse.
C3_WellFormedSheetsReachStore ==
    pcMount = "done" =>
        \A f \in WellFormedFiles : \E i \in 1..Len(sheets) : sheets[i].id = f.id

----------------------------------------------------------------------------
(* C4: unique sheet ids *)

\* C4: no two sheets of the returned collection or of the store share an id.
C4_SheetIdsUnique ==
    /\ \A i, j \in 1..Len(loaded_sheets) :
          loaded_sheets[i].id = loaded_sheets[j].id => i = j
    /\ \A i, j \in 1..Len(sheets) : sheets[i].id = sheets[j].id => i = j


----------------------------------------------------------------------------
(* C5: startup resolution *)

\* startup resolution as the specification orders it, for the captured process
SpecInitialSheetId(file, process) ==
    LET config == load_config(file)
    IN IF IsSome(process)
          /\ IsSome(MapGet(config.last_cheatsheet_per_process, Unwrap(process)))
       THEN MapGet(config.last_cheatsheet_per_process, Unwrap(process))
       ELSE config.last_cheatsheet_id

\* C5: the id startup resolution returns is the per-process preference of the
\* process captured before the window was shown, else last_cheatsheet_id, else
\* none; and with none the first sheet of the collection is displayed.
C5_StartupUsesCapturedProcess ==
    [][ (pcMount = "get_initial_sheet_id" /\ pcMount' = "done")
        => /\ initial_id' = SpecInitialSheetId(cfgFile, captured)
           /\ (initial_id' = None /\ loaded_sheets # <<>>
                  => current_sheet_id' = loaded_sheets[1].id) ]_vars

----------------------------------------------------------------------------
(* C6: per-process keys compared case-insensitively *)

\* C6: the per-process map never holds two keys that are equal ignoring case,
\* and process-change resolution finds the preference stored under any key that
\* equals its process ignoring case.
C6_KeysCaseInsensitive ==
    /\ [](\A k1, k2 \in DOMAIN cfgFile.per :
             to_lowercase(k1) = to_lowercase(k2) => k1 = k2)
    /\ [][ \A i \in 1..Len(tasks) :
             (/\ tasks[i].pc = "get_sheet_for_process"
              /\ tasks' = RemoveAt(tasks, i)
              /\ \E k \in DOMAIN cfgFile.per :
                    to_lowercase(k) = to_lowercase(tasks[i].p))
             => IsSome(get_sheet_for_process(cfgFile, tasks[i].p)) ]_vars

----------------------------------------------------------------------------
(* C7: per-process entries are written only for listed processes *)

\* C7: whenever a step puts an entry P -> S into the per-process map (a new key
\* or a new value), P appears case-insensitively in the process list of the
\* sheet the store holds under S at that moment.
C7_WrittenEntriesAreListed ==
    [][ \A P \in DOMAIN cfgFile'.per :
          MapGet(cfgFile.per, P) # Some(cfgFile'.per[P])
          => AppearsIn(StoreProcesses(cfgFile'.per[P]), P) ]_vars

\* the update for sheet A under Code.exe was saved and wrote Code.exe -> A
C7_Witness ==
    /\ last_done.ok
    /\ last_done.cmd = "update_last_cheatsheet"
    /\ last_done.process = Some("Code.exe")
    /\ last_done.sheet_id = "A"
    /\ MapGet(cfgFile.per, "Code.exe") = Some("A")
    /\ AppearsIn(StoreProcesses("A"), "Code.exe")

----------------------------------------------------------------------------
(* C8: a manual selection always becomes last_cheatsheet_id *)

\* C8: a dropdown change or an Alt+Arrow cycle sends update_last_cheatsheet for
\* the sheet it made current; and when the backend saves an update, the
\* persisted last_cheatsheet_id is that command's sheet, whatever its process
\* and process list are.
C8_SelectionBecomesLast ==
    [][ /\ ((\E id \in {"A", "B", "C"} : SelectSheet(id))
               \/ (\E down \in BOOLEAN : CycleSheet(down)))
           => /\ pending' # <<>>
              /\ pending'[Len(pending')].cmd = "update_last_cheatsheet"
              /\ pending'[Len(pending')].sheet_id = current_sheet_id'
              /\ Len(pending') = Len(pending) + 1
        /\ (UpdateRuns /\ last_done'.ok)
           => cfgFile'.last = Some(Head(pending).sheet_id) ]_vars

\* a user selection of a sheet that does not match the active process was saved
C8_Witness ==
    /\ last_done.ok
    /\ UserSelected(last_done)
    /\ IsSome(last_done.process)
    /\ ~SpecMatches(StoreProcesses(last_done.sheet_id), Unwrap(last_done.process))
    /\ cfgFile.last = Some(last_done.sheet_id)
    /\ current_sheet_id = last_done.sheet_id
    /\ pending = <<>>

----------------------------------------------------------------------------
(* C9: nothing matches, the display stays *)

\* no sheet of the store has a non-empty process list naming the process
NoSheetLists(p) == \A i \in 1..Len(sheets) : ~AppearsIn(sheets[i].processes, p)

\* C9: a step of the process-captured handler for a process that the displayed
\* sheet does not match and that no sheet of the store lists leaves
\* current_sheet_id as it was, whatever preference is saved for the process.
C9_NoMatchKeepsDisplay ==
    [][ \A i \in 1..Len(tasks) :
          (/\ HandlerGetCurrentProcess(i) \/ HandlerGetSheetForProcess(i)
           /\ LET p == IF tasks[i].pc = "get_current_process"
                       THEN captured ELSE Some(tasks[i].p)
              IN IsSome(p)
                 /\ ~SpecMatches(StoreProcesses(current_sheet_id), Unwrap(p))
                 /\ NoSheetLists(Unwrap(p)))
          => current_sheet_id' = current_sheet_id ]_vars

\* A is displayed, the store holds A{CODE.EXE} and B{}, the process changed to
\* slack.exe, no preference is saved for it, and the handler took the store
\* and awaits get_sheet_for_process
C9_Witness ==
    /\ current_sheet_id = "A"
    /\ Len(sheets) = 2
    /\ NoSheetLists("slack.exe")
    /\ current_process = Some("slack.exe")
    /\ MapGet(cfgFile.per, "slack.exe") = None
    /\ \E i \in 1..Len(tasks) :
          /\ tasks[i].pc = "get_sheet_for_process"
          /\ tasks[i].p = "slack.exe"
          /\ tasks[i].all_sheets = sheets

----------------------------------------------------------------------------
(* C10: resolver idempotence *)

\* C10: when the backend saves an update_last_cheatsheet that repeats the
\* command it saved just before (same sheet, same process, same process list),
\* last_cheatsheet_id and the per-process map stay as the first left them; and
\* no step writes a per-process entry for a process the sheet does not list.
C10_RepeatedSelectionIdempotent ==
    [][ /\ (/\ UpdateRuns
            /\ last_done'.ok
            /\ last_done.ok
            /\ last_done.cmd = "update_last_cheatsheet"
            /\ last_done.sheet_id = Head(pending).sheet_id
            /\ last_done.process = Head(pending).process
            /\ last_done.sheet_processes = Head(pending).sheet_processes)
           => /\ cfgFile'.last = cfgFile.last
              /\ cfgFile'.per = cfgFile.per
        /\ \A P \in DOMAIN cfgFile'.per :
              (MapGet(cfgFile.per, P) # Some(cfgFile'.per[P])
                  /\ ~AppearsIn(StoreProcesses(cfgFile'.per[P]), P))
              => FALSE ]_vars

\* the same sheet was cycled to twice under the same process: the first update
\* is saved (with its per-process entry), the second is next in the queue
C10_Witness ==
    /\ last_done.ok
    /\ last_done.cmd = "update_last_cheatsheet"
    /\ UserSelected(last_done)
    /\ IsSome(last_done.process)
    /\ pending # <<>>
    /\ UserSelected(Head(pending))
    /\ Head(pending).cmd = "update_last_cheatsheet"
    /\ Head(pending).sheet_id = last_done.sheet_id
    /\ Head(pending).process = last_done.process
    /\ Head(pending).sheet_processes = last_done.sheet_processes
    /\ MapGet(cfgFile.per, Unwrap(last_done.process)) = Some(last_done.sheet_id)
    /\ AppearsIn(StoreProcesses(last_done.sheet_id), Unwrap(last_done.process))

----------------------------------------------------------------------------
(* C11: which sheets build_index includes *)

\* the items of the k-th sheet of the store, as (sheet id, section, item)
ItemKeys(k) ==
    LET s == bi_sheets[k]
    IN UNION { {<<s.id, j - 1, i - 1>> : i \in 1..Len(s.sections[j].items)} :
               j \in 1..Len(s.sections) }

\* the entries of the built index, as (sheet id, section, item)
IndexKeys ==
    {<<Unwrap(index)[i].sheet_id, Unwrap(index)[i].section_index,
       Unwrap(index)[i].item_index>> : i \in 1..Len(Unwrap(index))}

\* C11: in a built index the items of a sheet are all present when no process
\* is given, or search_all is false, or the sheet's processes is empty, or it
\* contains the process case-insensitively; and none of them is present
\* otherwise.
C11_IndexInclusionRule ==
    IsSome(index) =>
        \A k \in 1..Len(bi_sheets) :
            IF \/ bi_process_filter = None
               \/ ~bi_search_all
               \/ bi_sheets[k].processes = <<>>
               \/ \E i \in 1..Len(bi_sheets[k].processes) :
                     to_lowercase(bi_sheets[k].processes[i])
                        = to_lowercase(Unwrap(bi_process_filter))
            THEN ItemKeys(k) \subseteq IndexKeys
            ELSE ItemKeys(k) \cap IndexKeys = {}

\* the index was built with search_all = false for slack.exe, and holds the
\* items of sheet P, which lists only CODE.EXE
C11_Witness ==
    /\ IsSome(index)
    /\ ~bi_search_all
    /\ bi_process_filter = Some("slack.exe")
    /\ bi_sheets = <<SheetS, SheetP, SheetQ>>
    /\ <<"P", 0, 1>> \in IndexKeys

----------------------------------------------------------------------------
(* C12, C13, C16: fuzzy_score *)

\* the characters of a string other than the space
NonSpace(str) == LET Keep(c) == c # " " IN SelectSeq(str, Keep)

\* needle occurs in hay in order: some strictly increasing choice of positions
IsSubsequence(needle, hay) ==
    \E f \in [1..Len(needle) -> 1..Len(hay)] :
        /\ \A i, j \in 1..Len(needle) : i < j => f[i] < f[j]
        /\ \A i \in 1..Len(needle) : hay[f[i]] = needle[i]

\* the query of the call has a full in-order match in its haystack
QueryMatches ==
    IsSubsequence(NonSpace(chars_to_lowercase(fs_query)), chars_to_lowercase(fs_text))

\* C12: a returned score is 0 whenever the query's non-space characters,
\* lowercased, are not a subsequence of the lowercased haystack.
C12_NoSubsequenceScoresZero ==
    IsSome(fs_score) => (~QueryMatches => ScoreZero(Unwrap(fs_score)))

\* a query of two letters whose first occurs in the haystack and whose second
\* does not follow it got its score
C12_Witness ==
    /\ IsSome(fs_score)
    /\ fs_query = <<"a", "b">>
    /\ fs_text = <<"b", "A", " ">>
    /\ ~QueryMatches
    /\ ScoreZero(Unwrap(fs_score))

\* C13 as stated: a returned score is 0 exactly when no full in-order match
\* exists, and strictly positive otherwise, the empty query and the queries of
\* spaces included.
C13_ZeroExactlyWhenNoMatch ==
    IsSome(fs_score) =>
        /\ ScoreZero(Unwrap(fs_score)) <=> ~QueryMatches
        /\ QueryMatches => ScorePositive(Unwrap(fs_score))

\* C13 amended: a returned score is 0 exactly when no full in-order match
\* exists or the query is empty, and strictly positive otherwise (a non-empty
\* query of spaces included).
C13_ZeroExactlyWhenNoMatchOrEmpty ==
    IsSome(fs_score) =>
        /\ ScoreZero(Unwrap(fs_score)) <=> (~QueryMatches \/ fs_query = <<>>)
        /\ (QueryMatches /\ fs_query # <<>>) => ScorePositive(Unwrap(fs_score))

\* the empty query got its score for a non-empty haystack
C13_Witness ==
    /\ IsSome(fs_score)
    /\ fs_query = <<>>
    /\ fs_text = <<"a", "b">>
    /\ ScoreZero(Unwrap(fs_score))

\* the haystack with character c inserted after its first k characters
InsertAfter(t, k, c) == SubSeq(t, 1, k) \o <<c>> \o SubSeq(t, k + 1, Len(t))

\* C16: score("ab","ab") > score("ab","axb"); and when the query matched, for
\* every two haystack characters matched one right after the other and every
\* alphanumeric character that is not, ignoring case, the query character
\* matched by the second, the haystack with that character between the two
\* scores strictly lower than the returned score.
C16_ContiguousBeatsSkipped ==
    /\ ScoreLess(fuzzy_score(<<"a", "b">>, <<"a", "x", "b">>),
                 fuzzy_score(<<"a", "b">>, <<"a", "b">>))
    /\ (IsSome(fs_score) /\ FuzzyRun(fs_query, fs_text).matched) =>
          LET at == FuzzyRun(fs_query, fs_text).at
              qs == NonSpace(chars_to_lowercase(fs_query))
          IN \A j \in 1..(Len(at) - 1) :
                \A c \in {"a", "b", "x", "A", "B", "X"} :
                   (/\ at[j + 1] = at[j] + 1
                    /\ is_alphanumeric(c)
                    /\ char_to_lowercase(c) # qs[j + 1])
                   => ScoreLess(fuzzy_score(fs_query, InsertAfter(fs_text, at[j], c)),
                                Unwrap(fs_score))

\* the query "ab" got its score for a haystack where a and b are matched one
\* right after the other
C16_Witness ==
    /\ IsSome(fs_score)
    /\ fs_query = <<"a", "b">>
    /\ fs_text = <<"#", "A", "b", " ">>
    /\ FuzzyRun(fs_query, fs_text).at = <<2, 3>>

----------------------------------------------------------------------------
(* C14, C15: the ranked list *)

\* C14: a computed ranked list has at most 100 entries, and no entry has a
\* higher score than the entry before it.
C14_RankedListCappedAndSorted ==
    IsSome(matches) =>
        /\ Len(Unwrap(matches)) <= 100
        /\ \A i \in 1..(Len(Unwrap(matches)) - 1) :
              ~ScoreLess(Unwrap(matches)[i].score, Unwrap(matches)[i + 1].score)

\* the query "a" was ranked on the long sheet: more than 100 entries score,
\* 100 are handed on, and the first scores higher than the last
C14_Witness ==
    /\ IsSome(matches)
    /\ IsSome(index)
    /\ search_query = <<"a">>
    /\ Len(ScoredMatches(search_query, Unwrap(index), current_sheet)) > 100
    /\ Len(Unwrap(matches)) = 100
    /\ ScoreLess(Unwrap(matches)[100].score, Unwrap(matches)[1].score)

\* the entries of the index that belong to the displayed sheet
ShownEntries ==
    LET OfSheet(e) == e.sheet_id = current_sheet IN SelectSeq(Unwrap(index), OfSheet)

\* the entry's tags_text matches the tag query
TagMatch(e) == ScorePositive(fuzzy_score(trim_start_matches(search_query), e.tags_text))

\* the entry matched only through the dampened full-text score
FallbackMatch(e) == ~TagMatch(e) /\ ScorePositive(fuzzy_score(search_query, e.text))

\* C15: in a ranked list for a query starting with '#', every entry of the
\* displayed sheet whose tags_text matches the tag query has a final score
\* strictly greater than every entry that matched only through the fallback.
C15_TagMatchesOutrankFallback ==
    (IsSome(matches) /\ is_tag_search(search_query)) =>
        \A i, j \in 1..Len(ShownEntries) :
            (TagMatch(ShownEntries[i]) /\ FallbackMatch(ShownEntries[j]))
            => ScoreLess(EntryScore(search_query, ShownEntries[j]),
                         EntryScore(search_query, ShownEntries[i]))

----------------------------------------------------------------------------
(* C17: how a saved per-process preference is validated *)

\* the sheet a handler's store snapshot holds under an id (0: none)
SnapshotSheet(i, id) == FindSheet(tasks[i].all_sheets, id)

\* C17 as stated: when the handler, for a process P the displayed sheet does not
\* match, is answered a saved preference S whose sheet is in the store with an
\* empty process list or one containing P case-insensitively, the display
\* switches to S.
C17_SavedValidatedByMatches ==
    [][ \A i \in 1..Len(tasks) :
          (/\ HandlerGetSheetForProcess(i)
           /\ IsSome(get_sheet_for_process(cfgFile, tasks[i].p))
           /\ LET S == Unwrap(get_sheet_for_process(cfgFile, tasks[i].p))
              IN /\ SnapshotSheet(i, S) # 0
                 /\ SpecMatches(tasks[i].all_sheets[SnapshotSheet(i, S)].processes,
                                tasks[i].p))
          => current_sheet_id' = Unwrap(get_sheet_for_process(cfgFile, tasks[i].p)) ]_vars

\* C17 amended: in the same step the display switches to the saved preference S
\* iff the sheet of S is in the store and its process list contains P
\* case-insensitively; an S whose sheet is missing or has an empty or
\* non-containing list is discarded and the scan decides (first sheet with a
\* non-empty list containing P, else the display stays).
C17_SavedValidatedByListing ==
    [][ \A i \in 1..Len(tasks) :
          (/\ HandlerGetSheetForProcess(i)
           /\ IsSome(get_sheet_for_process(cfgFile, tasks[i].p)))
          => LET S == Unwrap(get_sheet_for_process(cfgFile, tasks[i].p))
                 P == tasks[i].p
                 all == tasks[i].all_sheets
                 lists == SnapshotSheet(i, S) # 0
                          /\ AppearsIn(all[SnapshotSheet(i, S)].processes, P)
             IN IF lists
                THEN current_sheet_id' = S
                ELSE IF \E k \in 1..Len(all) : AppearsIn(all[k].processes, P)
                     THEN \E k \in 1..Len(all) :
                             /\ AppearsIn(all[k].processes, P)
                             /\ \A j \in 1..(k-1) : ~AppearsIn(all[j].processes, P)
                             /\ current_sheet_id' = all[k].id
                     ELSE current_sheet_id' = current_sheet_id ]_vars

\* A{CODE.EXE} is displayed, the process changed to slack.exe, the saved
\* preference for slack.exe is B, B has an empty list, C lists slack.exe, and
\* the handler awaits get_sheet_for_process
C17_Witness ==
    /\ current_sheet_id = "A"
    /\ current_process = Some("slack.exe")
    /\ get_sheet_for_process(cfgFile, "slack.exe") = Some("B")
    /\ \E i \in 1..Len(tasks) :
          /\ tasks[i].pc = "get_sheet_for_process"
          /\ tasks[i].p = "slack.exe"
          /\ tasks[i].current_id = "A"
          /\ SnapshotSheet(i, "B") # 0
          /\ tasks[i].all_sheets[SnapshotSheet(i, "B")].processes = <<>>
          /\ SnapshotSheet(i, "C") # 0

----------------------------------------------------------------------------
(* C18: the collection scan *)

\* C18: when the handler finds no saved preference whose sheet lists the
\* process, and some sheet of the store it read has a non-empty list containing
\* the process case-insensitively, the display switches to the first such sheet
\* in store order; a sheet with an empty list is never the one chosen.
C18_ScanPicksFirstListing ==
    [][ \A i \in 1..Len(tasks) :
          LET P == tasks[i].p
              all == tasks[i].all_sheets
              saved == get_sheet_for_process(cfgFile, P)
              valid == /\ IsSome(saved)
                       /\ SnapshotSheet(i, Unwrap(saved)) # 0
                       /\ AppearsIn(all[SnapshotSheet(i, Unwrap(saved))].processes, P)
          IN (HandlerGetSheetForProcess(i) /\ ~valid)
             => /\ (\E k \in 1..Len(all) : AppearsIn(all[k].processes, P))
                   => \E k \in 1..Len(all) :
                         /\ all[k].processes # <<>>
                         /\ Listed(all[k].processes, P)
                         /\ \A j \in 1..(k-1) : ~AppearsIn(all[j].processes, P)
                         /\ current_sheet_id' = all[k].id
                /\ current_sheet_id' # current_sheet_id
                   => \E k \in 1..Len(all) :
                         /\ all[k].id = current_sheet_id'
                         /\ all[k].processes # <<>> ]_vars

\* A is displayed, the process changed to slack.exe, nothing is saved for it,
\* the store read is A{CODE.EXE}, B{}, C{slack.exe, code.exe}, and the handler
\* awaits get_sheet_for_process
C18_Witness ==
    /\ current_sheet_id = "A"
    /\ get_sheet_for_process(cfgFile, "slack.exe") = None
    /\ \E i \in 1..Len(tasks) :
          /\ tasks[i].pc = "get_sheet_for_process"
          /\ tasks[i].p = "slack.exe"
          /\ Len(tasks[i].all_sheets) = 3
          /\ tasks[i].all_sheets[2].processes = <<>>
          /\ FirstMatchingSheet(tasks[i].all_sheets, "slack.exe") = Some("C")

----------------------------------------------------------------------------
(* C19: a process change the displayed sheet still matches *)

\* C19: when the handler learns a process that the displayed sheet matches
\* (empty list, or containing it case-insensitively), current_sheet_id stays as
\* it was; and the backend run of a command sent by such a process change
\* leaves last_cheatsheet_id and the per-process map as they were.
C19_MatchingProcessChangeWritesNothing ==
    [][ /\ \A i \in 1..Len(tasks) :
             (/\ HandlerGetCurrentProcess(i)
              /\ IsSome(captured)
              /\ FindSheet(sheets, current_sheet_id) # 0
              /\ SpecMatches(StoreProcesses(current_sheet_id), Unwrap(captured)))
             => current_sheet_id' = current_sheet_id
        /\ (UpdateRuns /\ Head(pending).via = "kept")
             => /\ cfgFile'.last = cfgFile.last
                /\ cfgFile'.per = cfgFile.per ]_vars

----------------------------------------------------------------------------
(* C20: no stale resolution *)

\* C20: whenever the process-captured handler sets current_sheet_id, the
\* process it resolved for is still current_process and the sheet it tested is
\* still current_sheet_id.
C20_NoStaleResolution ==
    [][ \A i \in 1..Len(tasks) :
          (/\ HandlerGetSheetForProcess(i)
           /\ IsSome(TargetSheet(get_sheet_for_process(cfgFile, tasks[i].p),
                                 tasks[i].all_sheets, tasks[i].p)))
          => /\ current_process = Some(tasks[i].p)
             /\ current_sheet_id = tasks[i].current_id ]_vars

----------------------------------------------------------------------------
(* C21: the ranked entries address items of the displayed sheet *)

\* C21: every entry of a computed ranked list addresses a live item of the
\* displayed sheet: its section_index is below the sheet's section count and
\* its item_index is below that section's item count.
C21_RankedEntriesAddressLiveItems ==
    IsSome(matches) =>
        LET sheet == CurrentSheet(bi_sheets, current_sheet)
        IN \A i \in 1..Len(Unwrap(matches)) :
              LET m == Unwrap(matches)[i]
              IN /\ m.section_index < Len(sheet.sections)
                 /\ m.item_index < Len(sheet.sections[m.section_index + 1].items)

----------------------------------------------------------------------------
(* C22: the scoring rule of the ranking *)

\* two scores are the same number
ScoreEq(x, y) == x[1] * y[2] = y[1] * x[2]

\* the score the rule gives an entry for the typed query: in tag mode twice
\* the tag score when it is positive and half the full-text score of the
\* whole query otherwise; the full-text score in non-tag mode
RuleScore(e) ==
    IF search_query # <<>> /\ search_query[1] = "#"
    THEN LET tag_score == fuzzy_score(trim_start_matches(search_query), e.tags_text)
             full == fuzzy_score(search_query, e.text)
         IN IF tag_score[1] > 0
            THEN <<2 * tag_score[1], tag_score[2]>>
            ELSE <<full[1], 2 * full[2]>>
    ELSE fuzzy_score(search_query, e.text)

\* the ranked list has an element for entry e with the score sc
Ranked(e, sc) ==
    \E i \in 1..Len(Unwrap(matches)) :
        /\ Unwrap(matches)[i].section_index = e.section_index
        /\ Unwrap(matches)[i].item_index = e.item_index
        /\ ScoreEq(Unwrap(matches)[i].score, sc)

\* C22: in a computed ranked list every element is an entry of the displayed
\* sheet with the score of the rule, that score being positive; and, unless
\* the list was cut at 100, every entry of the displayed sheet whose rule
\* score is positive is in the list, and none whose rule score is 0.
C22_ScoringRule ==
    IsSome(matches) =>
        /\ \A i \in 1..Len(Unwrap(matches)) :
              /\ Unwrap(matches)[i].score[1] > 0
              /\ \E k \in 1..Len(ShownEntries) :
                    /\ ShownEntries[k].section_index = Unwrap(matches)[i].section_index
                    /\ ShownEntries[k].item_index = Unwrap(matches)[i].item_index
                    /\ ScoreEq(Unwrap(matches)[i].score, RuleScore(ShownEntries[k]))
        /\ Len(Unwrap(matches)) < MaxResults =>
              /\ \A k \in 1..Len(ShownEntries) :
                    RuleScore(ShownEntries[k])[1] > 0
                    => Ranked(ShownEntries[k], RuleScore(ShownEntries[k]))
              /\ Len(Unwrap(matches))
                    = Cardinality({k \in 1..Len(ShownEntries) :
                                      RuleScore(ShownEntries[k])[1] > 0})

\* the query "#a" was ranked on sheet S: the item tagged "xA" is listed with
\* twice its tag score, and the untagged item with the key "#a" with half
\* its full-text score
C22_Witness ==
    /\ IsSome(matches)
    /\ search_query = <<"#", "a">>
    /\ bi_sheets = <<SheetS, SheetP, SheetQ>>
    /\ current_sheet = "S"
    /\ \E i, j \in 1..Len(Unwrap(matches)) :
          /\ Unwrap(matches)[i].section_index = 0
          /\ Unwrap(matches)[i].item_index = 0
          /\ Unwrap(matches)[i].score
                = <<2 * fuzzy_score(<<"a">>, <<"x", "a">>)[1],
                    fuzzy_score(<<"a">>, <<"x", "a">>)[2]>>
          /\ Unwrap(matches)[j].section_index = 0
          /\ Unwrap(matches)[j].item_index = 1
          /\ ScoreEq(Unwrap(matches)[j].score, <<300, 126>>)

----------------------------------------------------------------------------
(* C23: the tag query *)

\* the score of the rule when the tag query is the typed query without its
\* first character
OneHashScore(e) ==
    LET tag_score == fuzzy_score(Tail(search_query), e.tags_text)
        full == fuzzy_score(search_query, e.text)
    IN IF tag_score[1] > 0
       THEN <<2 * tag_score[1], tag_score[2]>>
       ELSE <<full[1], 2 * full[2]>>

\* C23: in a ranked list computed for a query '#' + r, the string scored
\* against tags_text is r: every element of the list has the score that the
\* rule gives its entry with the tag query r (for "##x" the tag query "#x").
C23_TagQueryStripsOneHash ==
    (IsSome(matches) /\ search_query # <<>> /\ search_query[1] = "#") =>
        \A i \in 1..Len(Unwrap(matches)) :
            \E k \in 1..Len(ShownEntries) :
                /\ ShownEntries[k].section_index = Unwrap(matches)[i].section_index
                /\ ShownEntries[k].item_index = Unwrap(matches)[i].item_index
                /\ ScoreEq(Unwrap(matches)[i].score, OneHashScore(ShownEntries[k]))

----------------------------------------------------------------------------
(* C24: search on the displayed sheet *)

\* the items of the displayed sheet that the results view lists for query q
ListedFor(q) ==
    LET ms == ScoredMatches(q, index_memo(sheets, current_process,
                                          search_all_for_process),
                            current_sheet_id)
    IN {<<ms[i].section_index, ms[i].item_index>> : i \in 1..Len(ms)}

\* the items of the displayed sheet whose searchable text scores for query q
ScoringFor(q) ==
    LET sheet == SheetContent(CurrentSheet(sheets, current_sheet_id))
    IN UNION { {<<j - 1, i - 1>> : i \in {n \in 1..Len(sheet.sections[j].items) :
                    ScorePositive(fuzzy_score(q, IndexEntry(sheet, j - 1, n - 1).text))}} :
               j \in 1..Len(sheet.sections) }

\* C24: in every reachable state with a displayed sheet, for the non-tag
\* queries "a" and "ab", every item of the displayed sheet whose searchable
\* text gives a positive fuzzy score is among the matches (before the cap).
C24_SearchCompleteOnDisplayedSheet ==
    FindSheet(sheets, current_sheet_id) # 0 =>
        \A q \in { <<"a">>, <<"a", "b">> } : ScoringFor(q) \subseteq ListedFor(q)

----------------------------------------------------------------------------
(* C25: the persisted process-filter flag and the toggle of the UI *)

\* the mount task is over and no handler task or backend call is in flight
Quiescent == pcMount = "done" /\ tasks = <<>> /\ pending = <<>>

\* C25: once all backend calls have completed, the search_all_for_process
\* flag that the backend loads from the config file equals the toggle state
\* held by the UI.
C25_PersistedFlagEqualsToggle ==
    Quiescent => load_config(cfgFile).search_all_for_process = search_all_for_process

----------------------------------------------------------------------------
(* C26: the active process after a window show *)

\* C26: when the process-captured handler has fetched the capture of a
\* window show, the active process equals the captured one, none included.
C26_ActiveProcessIsCaptured ==
    [][\A i \in 1..Len(tasks) :
          HandlerGetCurrentProcess(i) => current_process' = captured]_vars

----------------------------------------------------------------------------
(* C27: the current sheet id names a sheet of the store *)

\* C27: once the mount task has loaded a non-empty store, current_sheet_id
\* is the id of a sheet of the store.
C27_CurrentSheetInStore ==
    (pcMount = "done" /\ sheets # <<>>) => FindSheet(sheets, current_sheet_id) # 0

\* the persisted id "Z" is the id of no loaded sheet: the mount task made the
\* first sheet current
C27_Witness ==
    /\ pcMount = "done"
    /\ sheets # <<>>
    /\ initial_id = Some("Z")
    /\ FindSheet(sheets, "Z") = 0
    /\ current_sheet_id = sheets[1].id

====
